---- MODULE Spec2Model ----
(***************************************************************************)
(* Model of the CloudflareIPRange module (src/caddyfile.go): the prefix    *)
(* fetcher, Provision, the background refreshLoop and GetIPRanges.         *)
(***************************************************************************)
EXTENDS Integers, Sequences, FiniteSets, TLC

(***************************************************************************)
(* Bounds of the model.                                                    *)
(***************************************************************************)
\* longest response body (in scanned lines) the remote endpoints serve to
\* Provision and refreshLoop
MaxLines == 1
\* longest response body enumerated when fetch is explored on its own
MaxBodyLen == 2
\* number of goroutines calling GetIPRanges concurrently
NumReaders == 1
\* most sub-directive lines in the block given to UnmarshalCaddyfile
MaxDirectives == 2

(***************************************************************************)
(* Text lines and prefixes.  A line of a response body is modelled by what *)
(* the parsers read in it: whether it holds a slash ("cidr") or not        *)
(* ("addr"), the address family and value, how the address is spelled      *)
(* ("canon": the form netip prints; "alt": another spelling of the same    *)
(* address, e.g. 2001:0DB8:: for 2001:db8::, or 010.0.0.0 for 10.0.0.0)    *)
(* and the digits after the slash.                                         *)
(***************************************************************************)
ipv4 == 4
ipv6 == 6
Families == {ipv4, ipv6}
Hosts == {1}
Spellings == {"canon", "alt"}
BitsWritten == {24, 33, 128}

JunkLine == [text |-> "junk", fam |-> 0, host |-> 0, spelling |-> "canon", bits |-> 0]
BlankLine == [text |-> "blank", fam |-> 0, host |-> 0, spelling |-> "canon", bits |-> 0]
CidrLines == [text : {"cidr"}, fam : Families, host : Hosts, spelling : Spellings, bits : BitsWritten]
AddrLines == [text : {"addr"}, fam : Families, host : Hosts, spelling : Spellings, bits : {0}]
Lines == CidrLines \cup AddrLines \cup {JunkLine, BlankLine}

\* netip.Addr.BitLen
BitLen(fam) == IF fam = ipv4 THEN 32 ELSE 128

\* netip.ParseAddr on the address part of a line: an IPv4 field with a
\* leading zero is rejected, every spelling of an IPv6 address is accepted
AddrParses(l) ==
    /\ l.text \in {"cidr", "addr"}
    /\ (l.fam = ipv4 => l.spelling = "canon")

\* netip.ParsePrefix: the address must parse and the bits be in range; the
\* address is kept as written (not masked)
PrefixParses(l) == AddrParses(l) /\ l.bits <= BitLen(l.fam)

\* caddyhttp.CIDRExpressionToPrefix: with a slash the line is a CIDR
\* expression, otherwise a single address that becomes a full-length prefix
CIDRExpressionOk(l) == IF l.text = "cidr" THEN PrefixParses(l) ELSE AddrParses(l)

CIDRExpressionToPrefix(l) ==
    [fam |-> l.fam, host |-> l.host,
     bits |-> IF l.text = "cidr" THEN l.bits ELSE BitLen(l.fam)]

\* netip.Prefix.String: the canonical text of a prefix
PrefixString(p) ==
    [text |-> "cidr", fam |-> p.fam, host |-> p.host, spelling |-> "canon", bits |-> p.bits]

(***************************************************************************)
(* fetch.  A response is what http.DefaultClient.Do and the body give:     *)
(* st ("pending": no answer yet; "failed": Do returned an error; "ok": Do  *)
(* returned a response), the lines bufio.Scanner yields before Scan        *)
(* returns false, and readErr (Scan stopped on a read error, scanner.Err() *)
(* # nil, instead of the end of the body).                                 *)
(***************************************************************************)
Response(st, body, readErr) == [st |-> st, body |-> body, readErr |-> readErr]
NoRequest == Response("none", <<>>, FALSE)
Pending == Response("pending", <<>>, FALSE)
FailedDo == Response("failed", <<>>, FALSE)

FetchOk(prefixes) == [prefixes |-> prefixes, err |-> "nil"]
FetchErr(e) == [prefixes |-> <<>>, err |-> e]
NoFetch == [prefixes |-> <<>>, err |-> "none"]

\* the scan loop with a line that does not parse skipped
RECURSIVE ScanFromSkip(_, _, _)
ScanFromSkip(body, i, prefixes) ==
    IF i > Len(body)
    THEN FetchOk(prefixes)
    ELSE IF ~CIDRExpressionOk(body[i])
         THEN ScanFromSkip(body, i + 1, prefixes)
         ELSE ScanFromSkip(body, i + 1, Append(prefixes, CIDRExpressionToPrefix(body[i])))

\* the scan loop with each prefix put in front of those read before
RECURSIVE ScanFromPrepend(_, _, _)
ScanFromPrepend(body, i, prefixes) ==
    IF i > Len(body)
    THEN FetchOk(prefixes)
    ELSE IF ~CIDRExpressionOk(body[i])
         THEN FetchErr("parse")
         ELSE ScanFromPrepend(body, i + 1, <<CIDRExpressionToPrefix(body[i])>> \o prefixes)

\* the for scanner.Scan() loop of fetch, from line i on with the prefixes
\* appended so far, and the return after it
RECURSIVE ScanFrom(_, _, _)
ScanFrom(body, i, prefixes) ==
    IF i > Len(body)
    THEN FetchOk(prefixes)
    ELSE IF ~CIDRExpressionOk(body[i])
         THEN FetchErr("parse")
         ELSE ScanFrom(body, i + 1, Append(prefixes, CIDRExpressionToPrefix(body[i])))

\* fetch, given the response of its one GET
fetch(resp) ==
    IF resp.st = "failed" THEN FetchErr("transport") ELSE ScanFrom(resp.body, 1, <<>>)

RECURSIVE SeqsUpTo(_, _)
SeqsUpTo(S, n) ==
    IF n = 0 THEN {<<>>}
    ELSE LET shorter == SeqsUpTo(S, n - 1)
         IN shorter \cup {Append(s, x) : s \in shorter, x \in S}

(***************************************************************************)
(* Configuration and environment of Provision and refreshLoop.             *)
(***************************************************************************)
\* time.Hour, in seconds
Hour == 3600
\* values of the interval and timeout fields after configuration
Intervals == {-1, 0, 1}
Timeouts == {0, 1}

\* the lines the endpoint api serves: prefixes of its family, or a line
\* that is no CIDR expression
GoodLine(api) == [text |-> "cidr", fam |-> api, host |-> 1, spelling |-> "canon", bits |-> 24]
ServedLines(api) == {GoodLine(api), JunkLine}
\* what a pending GET can end as: Do fails, or returns a response
Served(api) ==
    {FailedDo} \cup
    {Response("ok", b, e) : b \in SeqsUpTo(ServedLines(api), MaxLines), e \in BOOLEAN}
\* the body cut by a read error after n of its lines
Truncations(resp) ==
    {Response("ok", SubSeq(resp.body, 1, n), TRUE) : n \in 0..Len(resp.body)}

Readers == 1..NumReaders
\* memory beyond the end of a backing array
Garbage == [fam |-> 0, host |-> 0, bits |-> 0]
\* names of backing arrays: the one s.ranges points to, those GetIPRanges
\* callers still hold, and one to allocate
ArrayIds == 1..(NumReaders + 2)
Nil == 0
\* a slice header: the pointer to the backing array and the length word
Slice(ptr, n) == [arr |-> ptr, len |-> n]
NilSlice == Slice(Nil, 0)
\* the prefixes of an IPv4 fetch and of an IPv6 fetch
Pair(p4, p6) == [v4 |-> p4, v6 |-> p6]
NoPair == Pair(<<>>, <<>>)
\* the RangeSet of a pair: the IPv4 list followed by the IPv6 list
Combined(pair) == pair.v4 \o pair.v6

VARIABLES
    Interval,      \* s.Interval
    Timeout,       \* s.Timeout
    cancelled,     \* s.ctx is done
    prov,          \* position of the caller in Provision
    loop,          \* position of the refreshLoop goroutine
    ranges,        \* s.ranges (slice header)
    heap,          \* the contents of the backing arrays
    ticker,        \* the time.Ticker of refreshLoop
    fullPrefixes,  \* local of refreshLoop
    inflight,      \* the GET of the running fetch and its response
    rpc,           \* position of each GetIPRanges caller
    got,           \* slice header each GetIPRanges caller has copied
    res4,          \* history: the IPv4 list of the fetch pair in progress
    lastGood,      \* history: the lists of the last IPv4, IPv6 fetch pair that succeeded
    live,          \* history: the fetch pair whose publication completed last
    outcome,       \* history: how the last refresh tick ended, "none" while one runs
    lateTick,      \* history: s.ctx was done when select took the tick in progress
    fin,           \* fetch explored alone: the response given
    fout,          \* fetch explored alone: what fetch returned
    dispenser,     \* the caddyfile.Dispenser given to UnmarshalCaddyfile
    unm            \* position of UnmarshalCaddyfile and the error it returned

vars == <<Interval, Timeout, cancelled, prov, loop, ranges, heap, ticker, fullPrefixes,
          inflight, rpc, got, res4, lastGood, live, outcome, lateTick, fin, fout,
          dispenser, unm>>

\* the elements a holder of slice header h sees
Val(h) ==
    LET a == IF h.arr = Nil THEN <<>> ELSE heap[h.arr]
    IN [i \in 1..h.len |-> IF i <= Len(a) THEN a[i] ELSE Garbage]
\* the arrays a slice header points to
Referenced(rg, gt) == ({rg.arr} \cup {gt[r].arr : r \in Readers}) \ {Nil}
\* a newly allocated array: one no slice header points to
NewArray == CHOOSE a \in ArrayIds : a \notin Referenced(ranges, got)
\* The names of the arrays are kept canonical: the arrays are numbered in
\* the order in which s.ranges, caller 1, caller 2, ... point to them, and an
\* array no slice header points to is gone (the garbage collector).
Roots(rg, gt) == <<rg.arr>> \o [r \in 1..NumReaders |-> gt[r].arr]
\* the arrays that roots points to, each once, in the order of roots
RECURSIVE Order(_, _)
Order(roots, seen) ==
    IF roots = <<>> THEN seen
    ELSE LET p == Head(roots)
         IN Order(Tail(roots),
                  IF p = Nil \/ \E k \in 1..Len(seen) : seen[k] = p
                  THEN seen ELSE Append(seen, p))
\* the canonical name of the array p: its place in that order
NameOf(p, order) ==
    IF p = Nil THEN Nil ELSE CHOOSE k \in 1..Len(order) : order[k] = p
\* the heap and the slice headers with every array under its canonical name
Renamed(h, rg, gt, order) ==
    [ranges |-> [rg EXCEPT !.arr = NameOf(@, order)],
     got |-> [r \in Readers |-> [gt[r] EXCEPT !.arr = NameOf(@, order)]],
     heap |-> [a \in ArrayIds |-> IF a <= Len(order) THEN h[order[a]] ELSE <<>>]]
Canon(h, rg, gt) ==
    CHOOSE c \in {Renamed(h, rg, gt, order) : order \in {Order(Roots(rg, gt), <<>>)}} : TRUE
\* the heap h, s.ranges = rg and the callers' slices gt become the state
Store(h, rg, gt) ==
    \E c \in {Canon(h, rg, gt)} :
        ranges' = c.ranges /\ got' = c.got /\ heap' = c.heap
\* append(s.ranges, prefixes...): nothing to append returns the slice as it
\* is; otherwise the elements move to an array that holds them all (no
\* other holder of the old array exists where the code appends to s.ranges,
\* so growing in place and moving are the same to every observer)
AppendToRanges(prefixes) ==
    IF prefixes = <<>>
    THEN UNCHANGED <<ranges, heap, got>>
    ELSE LET a == NewArray
             all == Val(ranges) \o prefixes
         IN Store([heap EXCEPT ![a] = all], Slice(a, Len(all)), got)

\* no ticker yet
NoTicker == [period |-> 0, running |-> FALSE]
\* no dispenser given, UnmarshalCaddyfile not called
NoDispenser == [tokens |-> <<>>, cursor |-> -1, nesting |-> 0]
NoInput == [nested |-> FALSE, form |-> "none", body |-> <<>>, follower |-> <<>>]
NotCalled == [pc |-> "idle", err |-> "none", input |-> NoInput]

Init ==
    /\ Interval \in Intervals
    /\ Timeout \in Timeouts
    /\ cancelled = FALSE
    /\ prov = "new"
    /\ loop = "none"
    /\ ranges = NilSlice
    /\ heap = [a \in ArrayIds |-> <<>>]
    /\ ticker = NoTicker
    /\ fullPrefixes = <<>>
    /\ inflight = NoRequest
    /\ rpc = [r \in Readers |-> "idle"]
    /\ got = [r \in Readers |-> NilSlice]
    /\ res4 = <<>>
    /\ lastGood = NoPair
    /\ live = NoPair
    /\ outcome = "none"
    /\ lateTick = FALSE
    /\ fin = NoRequest
    /\ fout = NoFetch
    /\ dispenser = NoDispenser
    /\ unm = NotCalled

\* a panic in the refreshLoop goroutine ends the process
Alive == loop # "panicked"

\* getContext that always uses context.WithTimeout
HasDeadlineAlways == TRUE

\* getContext: the fetch context has a deadline iff Timeout > 0
HasDeadline == Timeout > 0

\* a fetch context that is no child of s.ctx
SendDetached == Pending

\* getContext and Do: the fetch context is a child of s.ctx, so a GET under
\* an owning context that is already done fails without being sent
Send == IF cancelled THEN FailedDo ELSE Pending

\* a fetch context that the end of s.ctx does not end
OnCtxDoneDetached(resp) == {resp}

\* what the end of the fetch context (s.ctx cancelled, or the deadline
\* passed) makes of the GET: a pending Do fails; a body being read fails at
\* once or at a later line, or had already been read to its end
OnCtxDone(resp) ==
    CASE resp.st = "pending" -> {FailedDo}
      [] resp.st = "ok" -> {resp} \cup Truncations(resp)
      [] OTHER -> {resp}

Api(pos) == IF pos = "wait4" THEN ipv4 ELSE ipv6
Waiting == {"wait4", "wait6"}
\* the endpoint the fetch in progress asked
Asked == IF prov \in Waiting THEN Api(prov) ELSE Api(loop)

(***************************************************************************)
(* The remote endpoints, the owning context and the fetch deadline.        *)
(***************************************************************************)
\* the GET in flight is answered, or Do fails
Arrive ==
    /\ Alive
    /\ inflight = Pending
    /\ inflight' \in Served(Asked)
    /\ UNCHANGED <<Interval, Timeout, cancelled, prov, loop, ranges, fullPrefixes, rpc,
                   got, res4, lastGood, live, outcome, fin, fout>>
    /\ UNCHANGED <<lateTick, ticker, heap, dispenser, unm>>

\* the owning context is cancelled
Cancel ==
    /\ Alive
    /\ ~cancelled
    /\ cancelled' = TRUE
    /\ inflight' \in OnCtxDone(inflight)
    /\ UNCHANGED <<Interval, Timeout, prov, loop, ranges, fullPrefixes, rpc, got,
                   res4, lastGood, live, outcome, fin, fout>>
    /\ UNCHANGED <<lateTick, ticker, heap, dispenser, unm>>

\* the deadline of the fetch context passes before fetch has returned
DeadlineExpires ==
    /\ Alive
    /\ HasDeadline
    /\ inflight.st \in {"pending", "ok"}
    /\ ~inflight.readErr
    /\ inflight' \in OnCtxDone(inflight) \ {inflight}
    /\ UNCHANGED <<Interval, Timeout, cancelled, prov, loop, ranges, fullPrefixes, rpc,
                   got, res4, lastGood, live, outcome, fin, fout>>
    /\ UNCHANGED <<lateTick, ticker, heap, dispenser, unm>>

(***************************************************************************)
(* Provision.                                                              *)
(***************************************************************************)
\* s.ctx = ctx; s.lock = new(sync.RWMutex)
ProvisionCall ==
    /\ Alive
    /\ prov = "new"
    /\ prov' = "call4"
    /\ UNCHANGED <<Interval, Timeout, cancelled, loop, ranges, fullPrefixes, inflight,
                   rpc, got, res4, lastGood, live, outcome, lateTick, fin, fout>>
    /\ UNCHANGED <<lateTick, ticker, heap, dispenser, unm>>

\* s.fetch(ipv4), s.fetch(ipv6): the GET is issued
ProvisionDo ==
    /\ Alive
    /\ prov \in {"call4", "call6"}
    /\ prov' = (IF prov = "call4" THEN "wait4" ELSE "wait6")
    /\ inflight' = Send
    /\ UNCHANGED <<Interval, Timeout, cancelled, loop, ranges, fullPrefixes,
                   rpc, got, res4, lastGood, live, outcome, lateTick, fin, fout>>
    /\ UNCHANGED <<lateTick, ticker, heap, dispenser, unm>>

\* ProvisionFailed with the refresh goroutine started before the fetches
ProvisionFailedLoopStarted ==
    /\ prov' = "err"
    /\ loop' = "start"
    /\ UNCHANGED <<ranges, heap, got, res4, lastGood, live>>

\* if err != nil { return err }
ProvisionFailed ==
    /\ prov' = "err"
    /\ UNCHANGED <<loop, ranges, heap, got, res4, lastGood, live>>

\* ProvisionFetched that refuses to publish an empty set
ProvisionFetchedNonEmpty(r) ==
    IF prov = "wait6" /\ Val(ranges) \o r.prefixes = <<>>
    THEN ProvisionFailed
    ELSE /\ AppendToRanges(r.prefixes)
         /\ IF prov = "wait4"
            THEN /\ prov' = "call6"
                 /\ res4' = r.prefixes
                 /\ UNCHANGED <<loop, lastGood, live>>
            ELSE /\ prov' = "ok"
                 /\ loop' = "start"
                 /\ lastGood' = Pair(res4, r.prefixes)
                 /\ live' = lastGood'
                 /\ res4' = <<>>

\* s.ranges = append(s.ranges, prefixes...), and after the second fetch
\* go s.refreshLoop(); return nil
ProvisionFetched(r) ==
    /\ AppendToRanges(r.prefixes)
    /\ IF prov = "wait4"
       THEN /\ prov' = "call6"
            /\ res4' = r.prefixes
            /\ UNCHANGED <<loop, lastGood, live>>
       ELSE /\ prov' = "ok"
            /\ loop' = "start"
            /\ lastGood' = Pair(res4, r.prefixes)
            /\ live' = lastGood'
            /\ res4' = <<>>

\* fetch returns, and Provision runs up to its next fetch or its return
ProvisionRead ==
    /\ Alive
    /\ prov \in Waiting
    /\ inflight # Pending
    /\ LET r == fetch(inflight)
       IN IF r.err # "nil" THEN ProvisionFailed ELSE ProvisionFetched(r)
    /\ inflight' = NoRequest
    /\ UNCHANGED <<Interval, Timeout, cancelled, fullPrefixes, rpc, outcome, fin, fout>>
    /\ UNCHANGED <<lateTick, ticker, dispenser, unm>>

(***************************************************************************)
(* refreshLoop.                                                            *)
(***************************************************************************)
\* the default interval and time.NewTicker, which panics on a non-positive
\* interval
LoopStart ==
    /\ loop = "start"
    /\ Interval' = (IF Interval = 0 THEN Hour ELSE Interval)
    /\ IF Interval' <= 0
       THEN loop' = "panicked" /\ UNCHANGED ticker
       ELSE loop' = "select" /\ ticker' = [period |-> Interval', running |-> TRUE]
    /\ UNCHANGED <<Timeout, cancelled, prov, ranges, fullPrefixes, inflight, rpc, got,
                   res4, lastGood, live, outcome, fin, fout>>
    /\ UNCHANGED <<lateTick, heap, dispenser, unm>>

\* select takes case <-ticker.C
TickerFired ==
    /\ loop = "select"
    /\ ticker.running
    /\ loop' = "call4"
    /\ fullPrefixes' = <<>>
    /\ outcome' = "none"
    /\ UNCHANGED <<Interval, Timeout, cancelled, prov, ranges, inflight, rpc, got,
                   res4, lastGood, live, fin, fout>>
    /\ UNCHANGED <<ticker, heap, dispenser, unm>>
    /\ lateTick' = cancelled

\* select takes case <-s.ctx.Done(): ticker.Stop(); return
LoopExit ==
    /\ loop = "select"
    /\ cancelled
    /\ ticker' = [ticker EXCEPT !.running = FALSE]
    /\ loop' = "exited"
    /\ UNCHANGED <<Interval, Timeout, cancelled, prov, ranges, fullPrefixes, inflight,
                   rpc, got, res4, lastGood, live, outcome, lateTick, fin, fout>>
    /\ UNCHANGED <<lateTick, heap, dispenser, unm>>

\* s.fetch(ipv4), s.fetch(ipv6): the GET is issued
LoopDo ==
    /\ loop \in {"call4", "call6"}
    /\ loop' = (IF loop = "call4" THEN "wait4" ELSE "wait6")
    /\ inflight' = Send
    /\ UNCHANGED <<Interval, Timeout, cancelled, prov, ranges, fullPrefixes, rpc, got,
                   res4, lastGood, live, outcome, fin, fout>>
    /\ UNCHANGED <<lateTick, ticker, heap, dispenser, unm>>

\* LoopAbandon with the failed fetch tried again at once
LoopAbandonRetry ==
    /\ loop' = (IF loop = "wait4" THEN "call4" ELSE "call6")
    /\ UNCHANGED <<outcome, fullPrefixes, res4>>
    /\ UNCHANGED <<ranges, heap, got, lastGood>>
    /\ UNCHANGED <<ticker, dispenser, unm>>
    /\ UNCHANGED lateTick

\* if err != nil { break }: the tick is abandoned
LoopAbandon ==
    /\ loop' = "select"
    /\ outcome' = (IF loop = "wait4" THEN "failed4" ELSE "failed6")
    /\ fullPrefixes' = <<>>
    /\ res4' = <<>>
    /\ UNCHANGED <<ranges, heap, got, lastGood>>
    /\ UNCHANGED <<ticker, dispenser, unm>>
    /\ lateTick' = FALSE

\* LoopFetched with the list appended to s.ranges as soon as it is fetched,
\* the way Provision builds its set
LoopFetchedInPlace(r) ==
    /\ fullPrefixes' = fullPrefixes \o r.prefixes
    /\ AppendToRanges(r.prefixes)
    /\ UNCHANGED outcome
    /\ IF loop = "wait4"
       THEN /\ loop' = "call6"
            /\ res4' = r.prefixes
            /\ UNCHANGED lastGood
       ELSE /\ loop' = "lock"
            /\ lastGood' = Pair(res4, r.prefixes)
            /\ res4' = <<>>
    /\ UNCHANGED <<lateTick, ticker, dispenser, unm>>

\* LoopFetched with the list assigned to fullPrefixes instead of appended
LoopFetchedOverwrite(r) ==
    /\ fullPrefixes' = r.prefixes
    /\ UNCHANGED <<ranges, got, outcome>>
    /\ IF loop = "wait4"
       THEN /\ loop' = "call6"
            /\ res4' = r.prefixes
            /\ UNCHANGED lastGood
       ELSE /\ loop' = "lock"
            /\ lastGood' = Pair(res4, r.prefixes)
            /\ res4' = <<>>
    /\ UNCHANGED <<lateTick, ticker, heap, dispenser, unm>>

\* fullPrefixes = append(fullPrefixes, prefixes...)
LoopFetched(r) ==
    /\ fullPrefixes' = fullPrefixes \o r.prefixes
    /\ UNCHANGED <<ranges, got, outcome>>
    /\ IF loop = "wait4"
       THEN /\ loop' = "call6"
            /\ res4' = r.prefixes
            /\ UNCHANGED lastGood
       ELSE /\ loop' = "lock"
            /\ lastGood' = Pair(res4, r.prefixes)
            /\ res4' = <<>>
    /\ UNCHANGED <<lateTick, ticker, heap, dispenser, unm>>

\* fetch returns, and the tick runs up to its next fetch or s.lock.Lock()
LoopRead ==
    /\ loop \in Waiting
    /\ inflight # Pending
    /\ LET r == fetch(inflight)
       IN IF r.err # "nil" THEN LoopAbandon ELSE LoopFetched(r)
    /\ inflight' = NoRequest
    /\ UNCHANGED <<Interval, Timeout, cancelled, prov, rpc, live, fin, fout>>

\* sync.RWMutex: Lock returns once no reader holds the lock; RLock returns
\* unless the writer holds the lock or waits for it
\* RLock that does not wait for the writer
CanRLockAlways == TRUE
\* the write lock taken when the tick starts and held over its fetches
CanRLockOutsideTick == loop \notin {"call4", "wait4", "call6", "wait6", "lock", "write1", "write2"}
CanLock == \A r \in Readers : rpc[r] \notin {"rlocked", "mid"}
CanRLock == loop \notin {"lock", "write1", "write2"}

\* s.lock.Lock() returns
LoopLock ==
    /\ loop = "lock"
    /\ CanLock
    /\ loop' = "write1"
    /\ UNCHANGED <<Interval, Timeout, cancelled, prov, ranges, fullPrefixes, inflight,
                   rpc, got, res4, lastGood, live, outcome, lateTick, fin, fout>>
    /\ UNCHANGED <<lateTick, ticker, heap, dispenser, unm>>

\* LoopWriteArr with the new prefixes copied into the array s.ranges
\* already points to
LoopWriteArrInPlace ==
    /\ loop = "write1"
    /\ loop' = "write2"
    /\ LET a == IF ranges.arr # Nil THEN ranges.arr
                ELSE IF fullPrefixes = <<>> THEN Nil ELSE NewArray
       IN Store(IF a = Nil THEN heap ELSE [heap EXCEPT ![a] = fullPrefixes],
                [ranges EXCEPT !.arr = a], got)
    /\ UNCHANGED <<Interval, Timeout, cancelled, prov, fullPrefixes, inflight,
                   rpc, res4, lastGood, live, outcome, lateTick, fin, fout>>
    /\ UNCHANGED <<ticker, dispenser, unm>>

\* s.ranges = fullPrefixes: the pointer word
LoopWriteArr ==
    /\ loop = "write1"
    /\ loop' = "write2"
    /\ LET a == IF fullPrefixes = <<>> THEN Nil ELSE NewArray
       IN Store(IF a = Nil THEN heap ELSE [heap EXCEPT ![a] = fullPrefixes],
                [ranges EXCEPT !.arr = a], got)
    /\ UNCHANGED <<Interval, Timeout, cancelled, prov, fullPrefixes, inflight,
                   rpc, res4, lastGood, live, outcome, lateTick, fin, fout>>
    /\ UNCHANGED <<ticker, dispenser, unm>>

\* s.ranges = fullPrefixes: the length word; s.lock.Unlock()
LoopWriteLen ==
    /\ loop = "write2"
    /\ loop' = "select"
    /\ ranges' = [ranges EXCEPT !.len = Len(fullPrefixes)]
    /\ live' = lastGood
    /\ outcome' = "published"
    /\ fullPrefixes' = <<>>
    /\ UNCHANGED <<Interval, Timeout, cancelled, prov, inflight,
                   rpc, got, res4, lastGood, fin, fout>>
    /\ UNCHANGED <<ticker, heap, dispenser, unm>>
    /\ lateTick' = FALSE

(***************************************************************************)
(* GetIPRanges, called by the host once the module is provisioned.         *)
(***************************************************************************)
\* s.lock.RLock() returns
ReaderRLock(r) ==
    /\ Alive
    /\ prov = "ok"
    /\ rpc[r] \in {"idle", "returned"}
    /\ CanRLock
    /\ rpc' = [rpc EXCEPT ![r] = "rlocked"]
    /\ Store(heap, ranges, [got EXCEPT ![r] = NilSlice])
    /\ UNCHANGED <<Interval, Timeout, cancelled, prov, loop, fullPrefixes,
                   inflight, res4, lastGood, live, outcome, fin, fout>>
    /\ UNCHANGED <<lateTick, ticker, dispenser, unm>>

\* return s.ranges: the pointer word
ReaderReadArr(r) ==
    /\ Alive
    /\ rpc[r] = "rlocked"
    /\ rpc' = [rpc EXCEPT ![r] = "mid"]
    /\ got' = [got EXCEPT ![r].arr = ranges.arr]
    /\ UNCHANGED <<Interval, Timeout, cancelled, prov, loop, ranges, fullPrefixes,
                   inflight, res4, lastGood, live, outcome, fin, fout>>
    /\ UNCHANGED <<lateTick, ticker, heap, dispenser, unm>>

\* return s.ranges: the length word; the deferred s.lock.RUnlock()
ReaderReadLen(r) ==
    /\ Alive
    /\ rpc[r] = "mid"
    /\ rpc' = [rpc EXCEPT ![r] = "returned"]
    /\ got' = [got EXCEPT ![r].len = ranges.len]
    /\ UNCHANGED <<Interval, Timeout, cancelled, prov, loop, ranges, fullPrefixes,
                   inflight, res4, lastGood, live, outcome, fin, fout>>
    /\ UNCHANGED <<lateTick, ticker, heap, dispenser, unm>>

Provision == ProvisionCall \/ ProvisionDo \/ ProvisionRead
refreshLoop ==
    \/ LoopStart \/ TickerFired \/ LoopExit \/ LoopDo \/ LoopRead
    \/ LoopLock \/ LoopWriteArr \/ LoopWriteLen
GetIPRanges == \E r \in Readers : ReaderRLock(r) \/ ReaderReadArr(r) \/ ReaderReadLen(r)

Next == Arrive \/ Cancel \/ DeadlineExpires \/ Provision \/ refreshLoop \/ GetIPRanges

Spec == Init /\ [][Next]_vars

(***************************************************************************)
(* fetch explored alone, on every response of up to MaxBodyLen lines.      *)
(***************************************************************************)
FetchInputs ==
    {FailedDo} \cup {Response("ok", b, e) : b \in SeqsUpTo(Lines, MaxBodyLen), e \in BOOLEAN}

FetchInit ==
    /\ Interval = 0
    /\ Timeout = 0
    /\ cancelled = FALSE
    /\ prov = "new"
    /\ loop = "none"
    /\ ranges = NilSlice
    /\ heap = [a \in ArrayIds |-> <<>>]
    /\ ticker = NoTicker
    /\ fullPrefixes = <<>>
    /\ inflight = NoRequest
    /\ rpc = [r \in Readers |-> "idle"]
    /\ got = [r \in Readers |-> NilSlice]
    /\ res4 = <<>>
    /\ lastGood = NoPair
    /\ live = NoPair
    /\ outcome = "none"
    /\ lateTick = FALSE
    /\ fin \in FetchInputs
    /\ fout = NoFetch
    /\ dispenser = NoDispenser
    /\ unm = NotCalled

FetchCall ==
    /\ fout = NoFetch
    /\ fout' = fetch(fin)
    /\ UNCHANGED <<Interval, Timeout, cancelled, prov, loop, ranges, fullPrefixes,
                   inflight, rpc, got, res4, lastGood, live, outcome, fin>>
    /\ UNCHANGED <<lateTick, ticker, heap, dispenser, unm>>

FetchSpec == FetchInit /\ [][FetchCall]_vars

(***************************************************************************)
(* UnmarshalCaddyfile and the caddyfile.Dispenser it reads.  A token is    *)
(* its text and the line it stands on; the cursor counts from 0 and is -1  *)
(* before the first token, as in the dispenser.                            *)
(***************************************************************************)
\* caddy.ParseDuration on the argument texts, in seconds
Durations == [text : {"1.5h"}, ok : {TRUE}, val : {5400}] \cup
             [text : {"30s"}, ok : {TRUE}, val : {30}] \cup
             [text : {"10h"}, ok : {TRUE}, val : {36000}] \cup
             [text : {"-1h"}, ok : {TRUE}, val : {0 - 3600}]
ParseDuration(text) ==
    IF \E e \in Durations : e.text = text
    THEN CHOOSE e \in Durations : e.text = text
    ELSE [text |-> text, ok |-> FALSE, val |-> 0]

\* the tokens of a text given as lines of words
RECURSIVE Tokens(_, _)
Tokens(lines, n) ==
    IF n > Len(lines) THEN <<>>
    ELSE [i \in 1..Len(lines[n]) |-> [text |-> lines[n][i], line |-> n]] \o Tokens(lines, n + 1)

\* caddyfile.NewTestDispenser
NewTestDispenser(lines) == [tokens |-> Tokens(lines, 1), cursor |-> -1, nesting |-> 0]

\* Dispenser.Val
DVal(d) ==
    IF d.cursor < 0 \/ d.cursor >= Len(d.tokens) THEN "" ELSE d.tokens[d.cursor + 1].text

Moved(ok, d) == [ok |-> ok, d |-> d]

\* Dispenser.Next
DNext(d) ==
    IF d.cursor < Len(d.tokens) - 1
    THEN Moved(TRUE, [d EXCEPT !.cursor = @ + 1])
    ELSE Moved(FALSE, d)

\* Dispenser.nextOnSameLine
NextOnSameLine(d) ==
    IF d.cursor < 0 THEN Moved(TRUE, [d EXCEPT !.cursor = @ + 1])
    ELSE IF d.cursor >= Len(d.tokens) - 1 THEN Moved(FALSE, d)
    ELSE IF d.tokens[d.cursor + 1].line = d.tokens[d.cursor + 2].line
         THEN Moved(TRUE, [d EXCEPT !.cursor = @ + 1])
         ELSE Moved(FALSE, d)

\* Dispenser.NextArg: the next token of the line, unless it opens a block
DNextArg(d) ==
    LET n == NextOnSameLine(d)
    IN IF ~n.ok THEN Moved(FALSE, n.d)
       ELSE IF DVal(n.d) = "{" THEN Moved(FALSE, [n.d EXCEPT !.cursor = @ - 1])
       ELSE Moved(TRUE, n.d)

\* Dispenser.NextBlock, inside a block: the else-if of
\* if Val() == "}" && !nextOnSameLine() { nesting-- }
\* else if Val() == "{" && !nextOnSameLine() { nesting++ }
NextBlockOpens(d) ==
    IF DVal(d) # "{" THEN d
    ELSE LET n == NextOnSameLine(d)
         IN IF n.ok THEN n.d ELSE [d EXCEPT !.nesting = @ + 1]

\* Dispenser.NextBlock
DNextBlock(d, initialNestingLevel) ==
    IF d.nesting > initialNestingLevel
    THEN LET n == DNext(d)
         IN IF ~n.ok THEN Moved(FALSE, n.d)
            ELSE LET after ==
                         IF DVal(n.d) = "}"
                         THEN LET m == NextOnSameLine(n.d)
                              IN IF m.ok THEN NextBlockOpens(m.d)
                                 ELSE [n.d EXCEPT !.nesting = @ - 1]
                         ELSE NextBlockOpens(n.d)
                 IN Moved(after.nesting > initialNestingLevel, after)
    ELSE LET n == NextOnSameLine(d)
         IN IF ~n.ok THEN Moved(FALSE, n.d)
            ELSE IF DVal(n.d) # "{" THEN Moved(FALSE, [n.d EXCEPT !.cursor = @ - 1])
            ELSE LET o == DNext(n.d).d
                 IN IF DVal(o) = "}" THEN Moved(FALSE, o)
                    ELSE Moved(TRUE, [o EXCEPT !.nesting = @ + 1])

\* the configuration texts given: the module's name followed by nothing
\* ("bare"), by an argument ("arg"), by { } on its line ("empty") or by a
\* block of sub-directive lines ("block"); alone or inside the block of an
\* enclosing directive, where another directive may follow it
DirectiveLines ==
    {<<"interval", "1.5h">>, <<"timeout", "30s">>, <<"interval", "-1h">>,
     <<"interval">>, <<"timeout", "soon">>, <<"other_module", "10h">>}
Followers == {<<>>, <<"other_module", "10h">>, <<"other_module">>}
Inputs ==
    [nested : BOOLEAN, form : {"bare", "arg", "empty"}, body : {<<>>}, follower : Followers]
    \cup [nested : BOOLEAN, form : {"block"},
          body : SeqsUpTo(DirectiveLines, MaxDirectives), follower : Followers]

\* the lines of an input
OwnLines(in) ==
    CASE in.form = "bare" -> <<<<"cloudflare">>>>
      [] in.form = "arg" -> <<<<"cloudflare", "30s">>>>
      [] in.form = "empty" -> <<<<"cloudflare", "{", "}">>>>
      [] OTHER -> <<<<"cloudflare", "{">>>> \o in.body \o <<<<"}">>>>
InputLines(in) ==
    LET following == IF in.follower = <<>> THEN <<>> ELSE <<in.follower>>
    IN IF in.nested
       THEN <<<<"{">>>> \o OwnLines(in) \o following \o <<<<"}">>>>
       ELSE OwnLines(in) \o following

\* the dispenser the caller hands over: new, or after the caller's
\* d.Next(); d.NextBlock(d.Nesting()) on the enclosing block
GivenDispenser(in) ==
    LET d == NewTestDispenser(InputLines(in))
    IN IF in.nested
       THEN LET n == DNext(d).d IN DNextBlock(n, n.nesting).d
       ELSE d

progVars == <<cancelled, prov, loop, ranges, heap, ticker, fullPrefixes, inflight, rpc,
              got, res4, lastGood, live, outcome, lateTick, fin, fout>>

UnmarshalInit ==
    /\ Interval = 0
    /\ Timeout = 0
    /\ cancelled = FALSE
    /\ prov = "new"
    /\ loop = "none"
    /\ ranges = NilSlice
    /\ heap = [a \in ArrayIds |-> <<>>]
    /\ ticker = NoTicker
    /\ fullPrefixes = <<>>
    /\ inflight = NoRequest
    /\ rpc = [r \in Readers |-> "idle"]
    /\ got = [r \in Readers |-> NilSlice]
    /\ res4 = <<>>
    /\ lastGood = NoPair
    /\ live = NoPair
    /\ outcome = "none"
    /\ lateTick = FALSE
    /\ fin = NoRequest
    /\ fout = NoFetch
    /\ \E in \in Inputs :
         /\ dispenser = GivenDispenser(in)
         /\ unm = [pc |-> "outer", err |-> "none", input |-> in]

\* return err, return d.ArgErr(), return nil
Return(e, d) ==
    /\ unm' = [unm EXCEPT !.pc = "done", !.err = e]
    /\ dispenser' = d
    /\ UNCHANGED <<Interval, Timeout>>

\* for d.Next() { if d.NextArg() { return d.ArgErr() } ...
UnmarshalOuter ==
    /\ unm.pc = "outer"
    /\ LET n == DNext(dispenser)
           a == DNextArg(n.d)
       IN IF ~n.ok THEN Return("nil", n.d)
          ELSE IF a.ok THEN Return("ArgErr", a.d)
          ELSE /\ unm' = [unm EXCEPT !.pc = "block"]
               /\ dispenser' = a.d
               /\ UNCHANGED <<Interval, Timeout>>
    /\ UNCHANGED progVars

\* UnmarshalBlock with the timeout case assigning to m.Interval
UnmarshalBlockSwapped ==
    /\ unm.pc = "block"
    /\ LET b == DNextBlock(dispenser, 0)
           a == DNextArg(b.d)
           val == ParseDuration(DVal(a.d))
       IN IF ~b.ok
          THEN /\ unm' = [unm EXCEPT !.pc = "outer"]
               /\ dispenser' = b.d
               /\ UNCHANGED <<Interval, Timeout>>
          ELSE IF DVal(b.d) \notin {"interval", "timeout"} THEN Return("ArgErr", b.d)
          ELSE IF ~a.ok THEN Return("ArgErr", a.d)
          ELSE IF ~val.ok THEN Return("parse", a.d)
          ELSE /\ Interval' = val.val
               /\ UNCHANGED Timeout
               /\ dispenser' = a.d
               /\ UNCHANGED unm
    /\ UNCHANGED progVars

\* for d.NextBlock(0) { switch d.Val() { ... } }: one round of the loop
UnmarshalBlock ==
    /\ unm.pc = "block"
    /\ LET b == DNextBlock(dispenser, 0)
           a == DNextArg(b.d)
           val == ParseDuration(DVal(a.d))
       IN IF ~b.ok
          THEN /\ unm' = [unm EXCEPT !.pc = "outer"]
               /\ dispenser' = b.d
               /\ UNCHANGED <<Interval, Timeout>>
          ELSE IF DVal(b.d) \notin {"interval", "timeout"} THEN Return("ArgErr", b.d)
          ELSE IF ~a.ok THEN Return("ArgErr", a.d)
          ELSE IF ~val.ok THEN Return("parse", a.d)
          ELSE /\ Interval' = (IF DVal(b.d) = "interval" THEN val.val ELSE Interval)
               /\ Timeout' = (IF DVal(b.d) = "timeout" THEN val.val ELSE Timeout)
               /\ dispenser' = a.d
               /\ UNCHANGED unm
    /\ UNCHANGED progVars

\* the caller's d.Next() after UnmarshalCaddyfile has returned
CallerNext ==
    /\ unm.pc = "done"
    /\ unm' = [unm EXCEPT !.pc = "after"]
    /\ dispenser' = DNext(dispenser).d
    /\ UNCHANGED <<Interval, Timeout>>
    /\ UNCHANGED progVars

UnmarshalCaddyfile == UnmarshalOuter \/ UnmarshalBlock

UnmarshalSpec == UnmarshalInit /\ [][UnmarshalCaddyfile \/ CallerNext]_vars

(***************************************************************************)
(* Properties.                                                             *)
(***************************************************************************)
TickFetching == {"call4", "wait4", "call6", "wait6"}
Publishing == {"lock", "write1", "write2"}
\* the positions of refreshLoop inside its for loop
Running == {"select"} \cup TickFetching \cup Publishing

\* C1: no step of a refresh tick before its publish step changes s.ranges:
\* a tick abandoned at its IPv4 or at its IPv6 fetch leaves the RangeSet
\* GetIPRanges returns as it was before the tick.
C1_FailedTickKeepsRanges ==
    [][(loop \in TickFetching \/ (loop = "select" /\ loop' = "call4"))
         => ranges' = ranges]_vars

\* a tick was abandoned at its IPv6 fetch, after its IPv4 fetch succeeded,
\* and the published set is still the non-empty one from before the tick
C1_Witness ==
    /\ loop = "select"
    /\ outcome = "failed6"
    /\ Val(ranges) # <<>>
    /\ Val(ranges) = Combined(live)

\* C2: outside the publish step, the RangeSet is the IPv4 list followed by
\* the IPv6 list of the most recent fetch pair that succeeded (Provision's,
\* until a tick succeeds).
C2_RangesAreLastGoodPair ==
    (prov = "ok" /\ loop \notin Publishing) => Val(ranges) = Combined(lastGood)

\* a tick has published a pair with prefixes of both families
C2_Witness ==
    /\ loop = "select"
    /\ outcome = "published"
    /\ lastGood.v4 # <<>>
    /\ lastGood.v6 # <<>>
    /\ Val(ranges) = Combined(lastGood)

\* C3: the value a GetIPRanges call returns is the whole RangeSet of the
\* one fetch pair (Provision's or a tick's) published last when it read.
C3_ReaderGetsOnePublishedSet ==
    [][\A r \in Readers :
         (rpc[r] = "mid" /\ rpc'[r] = "returned") => Val(got[r])' = Combined(live)]_vars

\* a reader holds the set the last tick published
C3_Witness ==
    \E r \in Readers :
        /\ rpc[r] = "returned"
        /\ outcome = "published"
        /\ loop = "select"
        /\ Val(got[r]) = Combined(live)
        /\ Val(got[r]) # <<>>

\* C4: Provision returns an error exactly when the fetch it waited for
\* failed; the refresh loop is started exactly when it returns nil, and the
\* RangeSet it then leaves is the IPv4 list followed by the IPv6 list.
C4_ProvisionAllOrNothing ==
    /\ [](prov = "err" => loop = "none")
    /\ [](prov = "ok" => loop # "none")
    /\ []((prov = "ok" /\ loop = "start") =>
            /\ Val(ranges) = Combined(lastGood)
            /\ Len(Val(ranges)) = Len(lastGood.v4) + Len(lastGood.v6))
    /\ [][(prov \in Waiting /\ prov' # prov) =>
            ((prov' = "err") <=> (fetch(inflight).err # "nil"))]_vars

\* Provision has returned nil with prefixes of both families
C4_Witness ==
    /\ prov = "ok"
    /\ loop = "start"
    /\ lastGood.v4 # <<>>
    /\ lastGood.v6 # <<>>

\* C5 as stated: when Provision has returned nil, the RangeSet it published
\* is not empty.
C5_InitialSetNonEmpty ==
    (prov = "ok" /\ loop = "start") => Val(ranges) # <<>>

\* C5, amended: Provision returns nil whenever both fetches return without
\* error, also when both return no prefix; the RangeSet it publishes is
\* empty exactly when both lists are.
C5_EmptyPairProvisions ==
    /\ [][(prov = "wait6" /\ prov' # prov /\ res4 = <<>> /\ fetch(inflight) = FetchOk(<<>>))
            => (prov' = "ok" /\ loop' = "start" /\ Val(ranges)' = <<>>)]_vars
    /\ []((prov = "ok" /\ loop = "start") =>
            ((Val(ranges) = <<>>) <=> (lastGood.v4 = <<>> /\ lastGood.v6 = <<>>)))

\* Provision has returned nil on two empty lists
C5_Witness ==
    /\ prov = "ok"
    /\ loop = "start"
    /\ lastGood = NoPair
    /\ Val(ranges) = <<>>

\* C6: a fetch whose body read stopped on a read error returns an error:
\* Provision then fails, and a refresh tick is abandoned.
C6_ReadFailureFailsFetch ==
    [][(inflight.readErr /\ ((prov \in Waiting /\ prov' # prov) \/ (loop \in Waiting /\ loop' # loop)))
         => (prov' = "err" \/ loop' = "select")]_vars

WellFormed(body) == \A i \in 1..Len(body) : CIDRExpressionOk(body[i])
NonEmptyLines(body) == Cardinality({i \in 1..Len(body) : body[i].text # "blank"})
\* a CIDR expression written the way netip prints it
Canonical(l) == l.text = "cidr" /\ l.spelling = "canon"

\* C7: when some line of the body does not parse, fetch returns the parse
\* error and no prefix, whatever the lines before it.
C7_AllOrNothing ==
    (fout # NoFetch /\ fin.st = "ok" /\ ~WellFormed(fin.body))
        => (fout.err = "parse" /\ fout.prefixes = <<>>)

\* fetch has failed on a body whose first line parses and second does not
C7_Witness ==
    /\ fout.err = "parse"
    /\ Len(fin.body) = 2
    /\ CIDRExpressionOk(fin.body[1])
    /\ ~CIDRExpressionOk(fin.body[2])

\* C8 as stated: on a body of well-formed lines fetch returns as many
\* prefixes as there are non-empty lines, the Nth printing as the Nth line.
C8_RoundTrips ==
    (fout # NoFetch /\ fin.st = "ok" /\ WellFormed(fin.body)) =>
        /\ fout.err = "nil"
        /\ Len(fout.prefixes) = NonEmptyLines(fin.body)
        /\ \A n \in 1..Len(fin.body) :
             n <= Len(fout.prefixes) /\ PrefixString(fout.prefixes[n]) = fin.body[n]

\* C8, amended: on a body of well-formed lines (none of them empty) fetch
\* returns one prefix per line, the Nth being the parse of the Nth line; it
\* prints as the line when the line is a canonically spelled CIDR
\* expression, and as address/BitLen in canonical spelling when the line is
\* a bare address.
C8_ParsesInOrder ==
    (fout # NoFetch /\ fin.st = "ok" /\ WellFormed(fin.body)) =>
        /\ fout.err = "nil"
        /\ Len(fout.prefixes) = Len(fin.body)
        /\ Len(fin.body) = NonEmptyLines(fin.body)
        /\ \A n \in 1..Len(fin.body) :
             LET l == fin.body[n]
                 text == PrefixString(fout.prefixes[n])
             IN /\ fout.prefixes[n] = CIDRExpressionToPrefix(l)
                /\ Canonical(l) => text = l
                /\ l.text = "addr" =>
                     text = [l EXCEPT !.text = "cidr", !.spelling = "canon",
                                      !.bits = BitLen(l.fam)]

\* fetch has returned the prefixes of a bare address followed by a
\* canonical CIDR expression of another family
C8_Witness ==
    /\ fout.err = "nil"
    /\ Len(fin.body) = 2
    /\ fin.body[1].text = "addr"
    /\ Canonical(fin.body[2])
    /\ fin.body[1].fam # fin.body[2].fam
    /\ Len(fout.prefixes) = 2

\* C9 as stated: once s.ctx is done, the RangeSet in s.ranges never changes
\* again.
C9_NoMutationAfterCancel ==
    [][(cancelled /\ prov = "ok") => Val(ranges)' = Val(ranges)]_vars

\* C9, amended: once refreshLoop has returned, s.ranges never changes
\* again, and a tick that select takes after the cancellation gets no
\* further than its IPv4 fetch.
C9_NoMutationAfterExit ==
    /\ [][loop = "exited" => ranges' = ranges]_vars
    /\ [](lateTick => loop \in {"call4", "wait4"})

\* a tick that had fetched both lists before the cancellation is replacing
\* the RangeSet after it
C9_Witness ==
    /\ cancelled
    /\ ~lateTick
    /\ loop = "write1"
    /\ fullPrefixes # Val(ranges)

\* the state of the cache in the spec's state machine, read off the
\* positions of Provision and refreshLoop
Lifecycle ==
    CASE prov = "err" -> "Failed"
      [] prov # "ok" -> "Uninitialized"
      [] loop = "exited" -> "Stopped"
      [] loop = "panicked" -> "Crashed"
      [] OTHER -> "Ready"

\* C11: refreshLoop stops running only by the cancellation of s.ctx: when
\* it is no longer in its for loop, s.ctx is done and the ticker it created
\* is stopped; the cache only moves Uninitialized -> Ready -> Stopped or
\* Uninitialized -> Failed.
C11_OnlyCancelEndsLoop ==
    /\ []((prov = "ok" /\ loop \notin {"start"} \cup Running) =>
            (cancelled /\ ticker.period > 0 /\ ~ticker.running))
    /\ [][Lifecycle' # Lifecycle =>
            <<Lifecycle, Lifecycle'>> \in {<<"Uninitialized", "Ready">>,
                                          <<"Ready", "Stopped">>,
                                          <<"Uninitialized", "Failed">>}]_vars

\* C12: while refreshLoop is in a fetch of a tick it does not hold the
\* lock: every GetIPRanges caller can take its next step (RLock returns, the
\* slice is copied, the call returns), also when the GET is never answered.
\* A caller is kept waiting only while the loop is at its publish step.
C12_FetchHoldsNoLock ==
    /\ loop \in TickFetching =>
          \A r \in Readers :
              ENABLED (ReaderRLock(r) \/ ReaderReadArr(r) \/ ReaderReadLen(r))
    /\ \A r \in Readers :
          (prov = "ok" /\ Alive
             /\ ~ENABLED (ReaderRLock(r) \/ ReaderReadArr(r) \/ ReaderReadLen(r)))
          => loop \in Publishing

\* a GetIPRanges call is copying the slice while the IPv6 GET of a tick is
\* unanswered under no deadline
C12_Witness ==
    \E r \in Readers :
        /\ rpc[r] = "mid"
        /\ loop = "wait6"
        /\ inflight = Pending
        /\ ~HasDeadline
        /\ outcome = "none"

\* C13: with Interval unconfigured (zero) refreshLoop creates its ticker
\* with a period of one hour; with Timeout unconfigured (zero) no deadline
\* ever ends a fetch, and the cancellation of s.ctx ends a pending GET; with
\* Timeout > 0 the deadline can end every GET that is pending.
C13_Defaults ==
    /\ [][(loop = "start" /\ loop' # loop /\ Interval = 0) =>
            (loop' = "select" /\ ticker' = [period |-> Hour, running |-> TRUE])]_vars
    /\ [](Timeout = 0 => ~ENABLED DeadlineExpires)
    /\ [][(inflight = Pending /\ ~cancelled /\ cancelled') => inflight' = FailedDo]_vars
    /\ []((Timeout > 0 /\ Alive /\ inflight = Pending) => ENABLED DeadlineExpires)

\* with neither field configured, a GET of a tick is unanswered: the
\* ticker has a period of one hour and the fetch has no deadline
C13_Witness ==
    /\ Timeout = 0
    /\ ticker = [period |-> Hour, running |-> TRUE]
    /\ loop = "wait4"
    /\ inflight = Pending
    /\ ~ENABLED DeadlineExpires

\* a sub-directive line of the grammar: interval or timeout with a duration
DirectiveOk(l) ==
    /\ Len(l) = 2
    /\ l[1] \in {"interval", "timeout"}
    /\ l[2] \in {"1.5h", "30s", "10h", "-1h"}
\* a text of the grammar: the name alone, or with a block of such lines
Accepted(in) == in.form # "arg" /\ \A i \in 1..Len(in.body) : DirectiveOk(in.body[i])
\* the duration the last line for key gives, in seconds; zero without one
RECURSIVE Configured(_, _, _)
Configured(body, key, n) ==
    IF n = 0 THEN 0
    ELSE IF body[n][1] = key
         THEN CASE body[n][2] = "1.5h" -> 90 * 60
                [] body[n][2] = "30s" -> 30
                [] body[n][2] = "10h" -> 10 * 60 * 60
                [] OTHER -> 0 - 60 * 60
         ELSE Configured(body, key, n - 1)
Returned == unm.pc \in {"done", "after"}

\* C14: given the cloudflare block inside an enclosing block and followed
\* by the directive other_module 10h, UnmarshalCaddyfile returns nil with
\* Interval and Timeout as its own sub-directives say, and the caller's next
\* d.Next() is on other_module.
C14_ConsumesOwnBlock ==
    (unm.input.nested /\ unm.input.form = "block" /\ unm.input.follower # <<>>
       /\ Accepted(unm.input)) =>
        /\ Returned =>
             /\ unm.err = "nil"
             /\ Interval = Configured(unm.input.body, "interval", Len(unm.input.body))
             /\ Timeout = Configured(unm.input.body, "timeout", Len(unm.input.body))
        /\ unm.pc = "after" => DVal(dispenser) = "other_module"

\* C15: given the module's name and block and nothing after them,
\* UnmarshalCaddyfile returns nil exactly on the texts of the grammar (the
\* name alone, an empty block, or a block of interval <duration> and
\* timeout <duration> lines), and then each field holds the duration of its
\* last line, or zero without one: 1.5h is 90 minutes, 30s is 30 seconds.
C15_Grammar ==
    (Returned /\ unm.input.follower = <<>>) =>
        LET in == unm.input
        IN /\ (unm.err = "nil") <=> Accepted(in)
           /\ Accepted(in) =>
                /\ Interval = Configured(in.body, "interval", Len(in.body))
                /\ Timeout = Configured(in.body, "timeout", Len(in.body))
           /\ in.body = <<<<"interval", "1.5h">>, <<"timeout", "30s">>>> =>
                (Interval = 5400 /\ Timeout = 30)
           /\ in.form \in {"bare", "empty"} => (Interval = 0 /\ Timeout = 0)

\* the block of TestUnmarshal has been read
C15_Witness ==
    /\ unm.pc = "done"
    /\ unm.err = "nil"
    /\ ~unm.input.nested
    /\ unm.input.body = <<<<"interval", "1.5h">>, <<"timeout", "30s">>>>
    /\ unm.input.follower = <<>>
    /\ Interval = 5400
    /\ Timeout = 30

\* C16: in Provision and in every tick a GET is sent only by the step that
\* starts a fetch, one per fetch and never while another is in flight; the
\* IPv6 fetch starts only after the IPv4 fetch of the same round returned
\* without error; a fetch that failed ends the round (Provision returns the
\* error, the tick goes back to select), and a tick starts only by the
\* ticker firing in select.
C16_FetchOrder ==
    /\ [][(inflight' # inflight /\ inflight' # NoRequest /\ inflight = NoRequest) =>
            \/ prov \in {"call4", "call6"} /\ prov' = (IF prov = "call4" THEN "wait4" ELSE "wait6")
            \/ loop \in {"call4", "call6"} /\ loop' = (IF loop = "call4" THEN "wait4" ELSE "wait6")]_vars
    /\ [][((prov \in {"call4", "call6"} /\ prov' # prov) \/ (loop \in {"call4", "call6"} /\ loop' # loop))
            => (inflight = NoRequest /\ inflight' \in {Pending, FailedDo})]_vars
    /\ [][inflight.st \in {"failed", "ok"} => inflight'.st # "pending"]_vars
    /\ [][(prov' = "call6" /\ prov # "call6") =>
            (prov = "wait4" /\ fetch(inflight).err = "nil")]_vars
    /\ [][(loop' = "call6" /\ loop # "call6") =>
            (loop = "wait4" /\ fetch(inflight).err = "nil")]_vars
    /\ [][(prov \in Waiting /\ prov' # prov /\ fetch(inflight).err # "nil") =>
            (prov' = "err" /\ inflight' = NoRequest)]_vars
    /\ [][(loop \in Waiting /\ loop' # loop /\ fetch(inflight).err # "nil") =>
            (loop' = "select" /\ inflight' = NoRequest)]_vars
    /\ [][(loop' = "call4" /\ loop # "call4") => (loop = "select" /\ ticker.running)]_vars

\* a tick whose IPv4 fetch failed is over, with no GET in flight, and the
\* loop waits in select
C16_Witness ==
    /\ loop = "select"
    /\ outcome = "failed4"
    /\ inflight = NoRequest
    /\ ~cancelled

\* C17: the elements of a slice GetIPRanges has returned never change while
\* the caller holds it, and the assignment of a tick gives s.ranges an array
\* no caller points to.
C17_ReturnedSliceIsStable ==
    /\ [][\A r \in Readers :
            (rpc[r] = "returned" /\ rpc'[r] = "returned") => Val(got[r])' = Val(got[r])]_vars
    /\ [][(loop = "write1" /\ loop' = "write2" /\ ranges'.arr # Nil) =>
            \A r \in Readers : got'[r].arr # ranges'.arr]_vars

\* a caller still holds the set it was returned after a later tick has
\* published another one
C17_Witness ==
    \E r \in Readers :
        /\ rpc[r] = "returned"
        /\ loop = "select"
        /\ outcome = "published"
        /\ got[r].arr # ranges.arr
        /\ Val(got[r]) # <<>>
        /\ Val(got[r]) # Val(ranges)
        /\ Val(ranges) = Combined(live)

\* C18: s.ranges holds either nothing or the IPv4 list followed by the
\* IPv6 list of one fetch pair: after a Provision that failed it holds
\* nothing, and after one that succeeded it holds the pair published last
\* (but for the moment between the two words of a replacement).
C18_NoPartialSet ==
    /\ prov = "err" => Val(ranges) = <<>>
    /\ (prov = "ok" /\ loop # "write2") => Val(ranges) = Combined(live)

\* C19: whatever Interval was configured, refreshLoop does not crash when
\* it starts: once started it is in its for loop with a running ticker of a
\* positive period, until s.ctx is cancelled.
C19_TickerStartsForEveryInterval ==
    /\ loop # "panicked"
    /\ loop \in Running => (ticker.running /\ ticker.period > 0)
    /\ (loop \notin {"none", "start"} /\ ~cancelled) => loop \in Running

(***************************************************************************)
(* Liveness.  The goroutines keep running: a fetch whose GET has ended     *)
(* returns, the lock operations and the copies complete; select picks      *)
(* among its ready cases at random, so a case that is ready again and      *)
(* again is taken.  Nothing makes an endpoint answer or the ticker fire.   *)
(***************************************************************************)
\* the steps refreshLoop takes on its own once they are possible
LoopStep == LoopStart \/ LoopDo \/ LoopRead \/ LoopLock \/ LoopWriteArr \/ LoopWriteLen
\* the steps of a GetIPRanges call that holds the read lock
ReaderStep(r) == ReaderReadArr(r) \/ ReaderReadLen(r)

Fairness ==
    /\ WF_vars(LoopStep)
    /\ \A r \in Readers : WF_vars(ReaderStep(r))
    /\ SF_vars(LoopExit)

LiveSpec == Init /\ [][Next]_vars /\ Fairness

\* C10: once s.ctx is done, a refreshLoop that is in its for loop returns,
\* wherever it is then: waiting in select, in a fetch, or publishing.
C10_LoopExitsAfterCancel ==
    (cancelled /\ loop \in Running) ~> (loop = "exited")

\* the cancellation has arrived while a GET of the loop was unanswered
\* under no deadline
C10_Witness ==
    /\ cancelled
    /\ ~HasDeadline
    /\ loop = "wait6"
    /\ inflight = FailedDo
    /\ fullPrefixes # <<>>

====
